---- MODULE Spec2Model ----
(***************************************************************************)
(* Model of the mainframe metrics exporter (app.py): module-level          *)
(* configuration, init_state and simulate_loop, with the Prometheus        *)
(* registry represented by the log of the calls it receives.               *)
(*                                                                         *)
(* Numbers.  Python floats are modelled as fixed-point numbers with Scale  *)
(* units per 1 (percent, seconds, GiB, rates); a product or quotient is    *)
(* rounded toward minus infinity to a whole unit.  Memory amounts are      *)
(* kept in GiB instead of bytes (the factor 1024 ** 3 is common to all of  *)
(* them).  Latencies are kept in microseconds.                             *)
(*                                                                         *)
(* Randomness.  The module-global generator of `random` is a stream fixed  *)
(* by the seed.  `rng` holds the stream, rotated to the next draw; a draw  *)
(* is a level k in 0..Den standing for the fraction k / Den of the range   *)
(* asked for.                                                              *)
(***************************************************************************)
EXTENDS Integers, Sequences, FiniteSets, TLC

\* ---------------------------------------------------------------- bounds
MaxTicks == 2      \* ticks of the loop that are explored
Den      == 1      \* a draw is one of the levels 0..Den
MaxSeed  == 7      \* RANDOM_SEED ranges over 0..MaxSeed

Scale == 10 * 10   \* fixed-point units per 1

\* ------------------------------------------------------------ arithmetic
Min(a, b) == IF a <= b THEN a ELSE b
Max(a, b) == IF a >= b THEN a ELSE b

\* n/d as a fixed-point number
Fx(n, d) == (n * Scale) \div d

\* a * b for fixed-point a, b
Mul(a, b) == (a * b) \div Scale

\* ------------------------------------------------------------------ clamp
\* max(lo, min(hi, value)) without the outer max: the lower bound is lost
clampNoLower(value, lo, hi) == Min(hi, value)

clamp(value, lo, hi) == Max(lo, Min(hi, value))

\* --------------------------------------------------------------- env_list
\* A csv text is a sequence of one-character strings.
Comma == ","
Blank == " "

\* str.split(","): the fields between commas; always at least one field
RECURSIVE split(_)
split(raw) ==
  IF \A i \in 1..Len(raw) : raw[i] # Comma
    THEN <<raw>>
    ELSE LET c == CHOOSE i \in 1..Len(raw) :
                    raw[i] = Comma /\ \A j \in 1..(i - 1) : raw[j] # Comma
         IN  <<SubSeq(raw, 1, c - 1)>> \o split(SubSeq(raw, c + 1, Len(raw)))

\* str.strip(): leading and trailing blanks removed
RECURSIVE strip(_)
strip(p) ==
  IF p = <<>> THEN p
  ELSE IF Head(p) = Blank THEN strip(Tail(p))
  ELSE IF p[Len(p)] = Blank THEN strip(SubSeq(p, 1, Len(p) - 1))
  ELSE p

\* [p.strip() for p in raw.split(",") if p.strip()]
RECURSIVE stripped_parts(_)
stripped_parts(fields) ==
  IF fields = <<>> THEN <<>>
  ELSE (IF strip(Head(fields)) # <<>> THEN <<strip(Head(fields))>> ELSE <<>>)
         \o stripped_parts(Tail(fields))

\* os.getenv(name, default): an environment variable is [set, val]
getenv(var, default) == IF var.set THEN var.val ELSE default

env_list(var, default_csv) ==
  LET parts == stripped_parts(split(getenv(var, default_csv)))
  IN  IF parts # <<>> THEN parts ELSE stripped_parts(split(default_csv))

DEFAULT_LPARS_CSV == <<"L", "P", "A", "R", "1">>

\* ---------------------------------------------------------------- random
Levels == 0..Den

\* digits of n in base Den + 1, least significant first, at least one digit
RECURSIVE Digits(_)
Digits(n) ==
  IF n <= Den THEN <<n>>
  ELSE <<n % (Den + 1)>> \o Digits(n \div (Den + 1))

\* random.seed(n): the stream the seed fixes (the digits of n, repeated)
seed_stream(n) == Digits(n)

\* the i-th draw from now (i >= 1)
Draw(g, i) == g[((i - 1) % Len(g)) + 1]

\* the generator after n draws
Advance(g, n) == [i \in 1..Len(g) |-> g[((i - 1 + n) % Len(g)) + 1]]

\* random.uniform(a, b) at level k: a + (b - a) * random()
uniform(a, b, k) == a + ((b - a) * k) \div Den

\* random.random() at level k, in [0, 1)
random01(k) == (k * Scale) \div (Den + 1)

\* random.choice(seq) at level k
choice(seq, k) == seq[1 + (Len(seq) * k) \div (Den + 1)]

\* random.lognormvariate(mu, sigma) at level k, in microseconds:
\* exp(mu + sigma * z) with z = (2k - Den) / Den in [-1, 1]; exp is
\* interpolated linearly between its values at the integers -5..0
exp_micros(x) ==
  LET E  == [n \in -5..0 |->
               CASE n = -5 -> 6738   [] n = -4 -> 18316  [] n = -3 -> 49787
                 [] n = -2 -> 135335 [] n = -1 -> 367879 [] n = 0  -> 1000000]
      n  == Max(-5, Min(-1, x \div Scale))
      fr == x - n * Scale
  IN  E[n] + ((E[n + 1] - E[n]) * fr) \div Scale

lognormvariate(mu, sigma, k) == exp_micros(mu + (sigma * (2 * k - Den)) \div Den)

\* x ** 1.8 on [0, 1], interpolated linearly between its values at the quarters
pow18(x) ==
  LET V == [i \in 0..4 |->
              CASE i = 0 -> 0 [] i = 1 -> Fx(825, 10000) [] i = 2 -> Fx(2872, 10000)
                [] i = 3 -> Fx(5958, 10000) [] i = 4 -> Scale]
      q == Scale \div 4
      i == Max(0, Min(3, x \div q))
  IN  V[i] + ((V[i + 1] - V[i]) * (x - i * q)) \div q

\* -------------------------------------------------------------- catalogs
ADDRESS_SPACES ==
  <<"DFHSIP", "DBM1", "MSTR", "TCPIP", "VTAM", "JES2", "SMF", "RMF", "IMSCTL", "MQM">>

SERVICES == <<"CICS", "DB2", "IMS", "MQ">>

MEM_TIERS == <<32, 48, 64, 96, 128>>

MIPS_CAPS == <<8000, 10000, 12000, 16000>>

\* ------------------------------------------------------------- init_state
\* draws made for one LPAR by init_state
InitDraws == 8

\* init_state with the cpu drawn from the whole interval [0, 100]
initLparWideCpu(g) ==
  LET total_mem == choice(MEM_TIERS, Draw(g, 1)) * Scale
      used_mem  == Mul(total_mem, uniform(Fx(45, 100), Fx(75, 100), Draw(g, 2)))
  IN  [cpu       |-> uniform(0, 100 * Scale, Draw(g, 3)),
       ziip      |-> uniform(5 * Scale, 60 * Scale, Draw(g, 4)),
       mips_cap  |-> choice(MIPS_CAPS, Draw(g, 5)),
       iops      |-> uniform(500 * Scale, 3500 * Scale, Draw(g, 6)),
       mem_total |-> total_mem,
       mem_used  |-> used_mem,
       jobq      |-> uniform(0, 40 * Scale, Draw(g, 7)),
       cfq       |-> uniform(1 * Scale, 20 * Scale, Draw(g, 8))]

\* the record init_state builds for one LPAR, with the generator at g
init_lpar(g) ==
  LET total_mem == choice(MEM_TIERS, Draw(g, 1)) * Scale
      used_mem  == Mul(total_mem, uniform(Fx(45, 100), Fx(75, 100), Draw(g, 2)))
  IN  [cpu       |-> uniform(10 * Scale, 70 * Scale, Draw(g, 3)),
       ziip      |-> uniform(5 * Scale, 60 * Scale, Draw(g, 4)),
       mips_cap  |-> choice(MIPS_CAPS, Draw(g, 5)),
       iops      |-> uniform(500 * Scale, 3500 * Scale, Draw(g, 6)),
       mem_total |-> total_mem,
       mem_used  |-> used_mem,
       jobq      |-> uniform(0, 40 * Scale, Draw(g, 7)),
       cfq       |-> uniform(1 * Scale, 20 * Scale, Draw(g, 8))]

\* the order of the characters that names are compared by
Alphabet == <<" ", ",", "1", "A", "B", "L", "P", "R">>

CharRank(c) == CHOOSE i \in 1..Len(Alphabet) : Alphabet[i] = c

\* init_state going through sorted(set(LPARS)): the record of a name is drawn
\* at the place of the name in the alphabet, not in the list (the names in
\* play differ in their first character)
initStateSorted(lpars, g) ==
  LET names == {lpars[i] : i \in 1..Len(lpars)}
  IN  [l \in names |->
         LET before == {m \in names : CharRank(m[1]) < CharRank(l[1])}
         IN  init_lpar(Advance(g, InitDraws * Cardinality(before)))]

\* the dict init_state returns: a later entry of the same name replaces an
\* earlier one
init_state(lpars, g) ==
  [l \in {lpars[i] : i \in 1..Len(lpars)} |->
     LET last == CHOOSE i \in 1..Len(lpars) :
                   lpars[i] = l /\ \A j \in (i + 1)..Len(lpars) : lpars[j] # l
     IN  init_lpar(Advance(g, InitDraws * (last - 1)))]

\* --------------------------------------------------------- the walk step
\* draws made by lines 155-165 for one LPAR
WalkDraws == 7

\* the walk writes the drifted memory into mem_total instead of mem_used
walkDriftTotal(s, g) ==
  [s EXCEPT !.mem_total = clamp(s.mem_used + uniform(Fx(-7, 10), Fx(9, 10), Draw(g, 7)),
                                Mul(s.mem_total, Fx(30, 100)),
                                Mul(s.mem_total, Fx(97, 100)))]

\* lines 155-159 and 165-166: the state record after the walks
walk(s, g) ==
  [s EXCEPT
     !.cpu  = clamp(s.cpu + uniform(-6 * Scale, 6 * Scale, Draw(g, 1))
                      + Mul(35 * Scale - s.cpu, Fx(3, 100)), 0, 100 * Scale),
     !.ziip = clamp(s.ziip + uniform(-6 * Scale, 6 * Scale, Draw(g, 2))
                      + Mul(25 * Scale - s.ziip, Fx(3, 100)), 0, 100 * Scale),
     !.iops = clamp(s.iops + uniform(-250 * Scale, 250 * Scale, Draw(g, 3)),
                    0, 8000 * Scale),
     !.jobq = clamp(s.jobq + uniform(-3 * Scale, 3 * Scale, Draw(g, 4)), 0, 200 * Scale),
     !.cfq  = clamp(s.cfq + uniform(-2 * Scale, 2 * Scale, Draw(g, 5))
                      + Mul(10 * Scale - s.cfq, Fx(2, 100)), 0, 80 * Scale),
     !.mem_used = clamp(s.mem_used + uniform(Fx(-7, 10), Fx(9, 10), Draw(g, 7)),
                        Mul(s.mem_total, Fx(30, 100)),
                        Mul(s.mem_total, Fx(97, 100)))]

\* line 162: mips, from the cpu value after the walk
mips_consumed(s, g) ==
  Mul((s.mips_cap * s.cpu) \div 100, uniform(Fx(85, 100), Fx(115, 100), Draw(g, 6)))

\* the gauges of one LPAR with the operands of line 175 exchanged
lparGaugesUptimeSwapped(lpar, s, mips, uptime) ==
  << <<"CPU", lpar, "", s.cpu>>, <<"ZIIP", lpar, "", s.ziip>>,
     <<"MIPS", lpar, "", mips>>, <<"IOPS", lpar, "", s.iops>>,
     <<"MEM_USED", lpar, "", s.mem_used>>, <<"JOBQ", lpar, "", s.jobq>>,
     <<"CFQ", lpar, "", s.cfq>>, <<"UPTIME", lpar, "", 0 - uptime>> >>

\* lines 168-175: the gauges set for one LPAR
lpar_gauges(lpar, s, mips, uptime) ==
  << <<"CPU", lpar, "", s.cpu>>, <<"ZIIP", lpar, "", s.ziip>>,
     <<"MIPS", lpar, "", mips>>, <<"IOPS", lpar, "", s.iops>>,
     <<"MEM_USED", lpar, "", s.mem_used>>, <<"JOBQ", lpar, "", s.jobq>>,
     <<"CFQ", lpar, "", s.cfq>>, <<"UPTIME", lpar, "", uptime>> >>

\* -------------------------------------------------------- address spaces
NumAS == Len(ADDRESS_SPACES)

\* draws made by lines 179-188: the weights, then two per address space
ASDraws == 3 * NumAS

\* line 179: weights[a] = random.random() ** 1.8
weight(g, a) == pow18(random01(Draw(g, a)))

RECURSIVE SumTo(_, _)
SumTo(f, n) == IF n = 0 THEN 0 ELSE f[n] + SumTo(f, n - 1)

\* line 180: wsum = sum(weights) or 1.0
weight_sum(g) ==
  LET total == SumTo([a \in 1..NumAS |-> weight(g, a)], NumAS)
  IN  IF total # 0 THEN total ELSE Scale

\* the CPU share of address space a without the clamp of line 183
asCpuNoClamp(s, g, a) ==
  LET share == (weight(g, a) * Scale) \div weight_sum(g)
      noise == uniform(Fx(7, 10), Fx(13, 10), Draw(g, NumAS + 2 * a - 1))
  IN  Mul(Mul(s.cpu, share), noise)

\* lines 182-183: the CPU share of address space a
as_cpu(s, g, a) ==
  LET share == (weight(g, a) * Scale) \div weight_sum(g)
      noise == uniform(Fx(7, 10), Fx(13, 10), Draw(g, NumAS + 2 * a - 1))
  IN  clamp(Mul(Mul(s.cpu, share), noise), 0, 100 * Scale)

\* line 187: the resident memory of address space a
as_rss(s, g, a) ==
  Mul(s.mem_used \div NumAS, uniform(Fx(6, 10), Fx(16, 10), Draw(g, NumAS + 2 * a)))

\* lines 181-188: the gauges set for the address spaces of one LPAR
as_gauges(lpar, s, g) ==
  [n \in 1..(2 * NumAS) |->
     LET a == (n + 1) \div 2
     IN  IF n % 2 = 1 THEN <<"AS_CPU", lpar, ADDRESS_SPACES[a], as_cpu(s, g, a)>>
                      ELSE <<"AS_RSS", lpar, ADDRESS_SPACES[a], as_rss(s, g, a)>>]

\* ----------------------------------------------------------- transactions
\* line 193
base_rate(service) == IF service = "CICS" THEN 250 ELSE 160

\* line 194: tps = base * (0.5 + cpu / 200.0) * random.uniform(0.8, 1.3)
tps_of(service, s, noise) ==
  Mul(base_rate(service) * (Fx(1, 2) + s.cpu \div 200), noise)

\* the count without the floor of 10
countNoFloor(tps, interval) == (Mul(tps, interval) \div 5) \div Scale

\* the count with the scaled rate rounded to the nearest integer (ties to even)
countRounded(tps, interval) ==
  LET x == Max(10 * Scale, Mul(tps, interval) \div 5)
      q == x \div Scale
      r == x % Scale
  IN  IF 2 * r > Scale \/ (2 * r = Scale /\ q % 2 = 1) THEN q + 1 ELSE q

\* line 195: count = int(max(10, tps * INTERVAL / 5.0))
count_of(tps, interval) == Max(10 * Scale, Mul(tps, interval) \div 5) \div Scale

\* lines 198-205: the latency profile of a service
lat_mu(service) ==
  CASE service = "CICS" -> Fx(-32, 10) [] service = "DB2" -> Fx(-28, 10)
    [] service = "IMS" -> Fx(-30, 10)  [] OTHER -> Fx(-34, 10)

lat_sigma(service) ==
  CASE service = "CICS" -> Fx(55, 100) [] service = "DB2" -> Fx(60, 100)
    [] service = "IMS" -> Fx(55, 100)  [] OTHER -> Fx(50, 100)

\* the latency with the queue depth divided by 200 instead of 400
latencyOverTwoHundred(service, s, k) ==
  Mul(lognormvariate(lat_mu(service), lat_sigma(service), k), Scale + s.jobq \div 200)

\* lines 198-208: the latency of one transaction, drawn at level k
latency(service, s, k) ==
  Mul(lognormvariate(lat_mu(service), lat_sigma(service), k), Scale + s.jobq \div 400)

\* the loop body with the counter incremented once per service instead
\* of once per transaction
txn_calls_one_inc(lpar, service, s, g, count) ==
  [n \in 1..(count + 1) |->
     IF n <= count THEN <<"TXN_LAT", lpar, service, latency(service, s, Draw(g, 1 + n))>>
                   ELSE <<"TXN_TOTAL", lpar, service, 1>>]

\* lines 196-211: the calls made for the transactions of one service; the
\* first draw of g is the rate noise, the next `count` are the latencies
txn_calls(lpar, service, s, g, count) ==
  [n \in 1..(2 * count) |->
     IF n % 2 = 1 THEN <<"TXN_LAT", lpar, service, latency(service, s, Draw(g, 1 + (n + 1) \div 2))>>
                  ELSE <<"TXN_TOTAL", lpar, service, 1>>]

\* ------------------------------------------------------------------ state
VARIABLES
  env,       \* the process environment: MAINFRAME_LPARS, UPDATE_INTERVAL_SECONDS, RANDOM_SEED
  pc,        \* position of the process: "import", "main", "loop", "walk", "as", "txn", "sleep", "error"
  LPARS,     \* line 20
  INTERVAL,  \* line 22
  rng,       \* the generator of the random module
  clock,     \* the wall clock
  started,   \* line 142
  now,       \* line 150
  state,     \* line 143: LPAR name -> record
  idx,       \* position of `for lpar in LPARS` (line 151)
  svc,       \* position of `for service in SERVICES` (line 191)
  loc,       \* locals of the loop body: mips, and service, noise, tps, count of the last service
  out,       \* the calls received by the metric registry, in order
  TXN_LAT,   \* line 93: observations of the histogram, by (lpar, service)
  TXN_TOTAL, \* line 100: value of the counter, by (lpar, service)
  ticks,     \* iterations of the while loop begun
  sleeps,    \* calls of time.sleep completed
  run,       \* which run of the process this is: 1, or 2 after a restart
  prior,     \* the calls the registry of the previous run received
  call       \* a call of clamp on its own: value, lo, hi, outcome, result

vars == <<env, pc, LPARS, INTERVAL, rng, clock, started, now, state, idx, svc, loc, out,
          TXN_LAT, TXN_TOTAL, ticks, sleeps, run, prior, call>>

\* the histogram and the counter
meters == <<TXN_LAT, TXN_TOTAL>>

\* what the process itself never writes
aux == <<run, prior, call>>

Text(s) == [set |-> TRUE, val |-> s]
Unset == [set |-> FALSE, val |-> <<>>]

\* values of MAINFRAME_LPARS: unset, "", " , ", "A", "A,B", " ,A, A"
LparEnvs ==
  {Unset, Text(<<>>), Text(<<" ", ",", " ">>), Text(<<"A">>), Text(<<"A", ",", "B">>),
   Text(<<" ", ",", "A", ",", " ", "A">>)}

\* values of UPDATE_INTERVAL_SECONDS: unset, a text float() rejects, -1, 0, 0.4;
\* val is what float() returns
IntervalEnvs ==
  {[set |-> FALSE, ok |-> TRUE, val |-> 0], [set |-> TRUE, ok |-> FALSE, val |-> 0]}
    \cup {[set |-> TRUE, ok |-> TRUE, val |-> v] : v \in {-Scale, 0, Fx(4, 10)}}

\* values of RANDOM_SEED: unset, or a text of an integer
SeedEnvs == {[set |-> FALSE, val |-> 0]} \cup {[set |-> TRUE, val |-> n] : n \in 0..MaxSeed}

\* time that passes before a clock reading beyond what the code asks for
Lags == {0, 1}

NoCall == [value |-> 0, lo |-> 0, hi |-> 0, outcome |-> "none", result |-> 0]

NoLocals == [lpar |-> <<>>, mips |-> 0, service |-> "", noise |-> 0, tps |-> 0, count |-> 0]

Init ==
  /\ env \in [lpars : LparEnvs, interval : IntervalEnvs, seed : SeedEnvs]
  /\ pc = "import"
  /\ LPARS = <<>>
  /\ INTERVAL = 0
  /\ rng = <<0>>
  /\ clock = 0
  /\ started = 0
  /\ now = 0
  /\ state = <<>>
  /\ idx = 0
  /\ svc = 0
  /\ loc = NoLocals
  /\ out = <<>>
  /\ TXN_LAT = <<>>
  /\ TXN_TOTAL = <<>>
  /\ ticks = 0
  /\ sleeps = 0
  /\ run = 1
  /\ prior = <<>>
  /\ call = NoCall

\* ---------------------------------------------------------------- actions
\* line 24 seeding the generator from the clock instead of RANDOM_SEED
loadConfigClockSeed ==
  /\ pc = "import"
  /\ env.interval.ok
  /\ LPARS' = env_list(env.lpars, DEFAULT_LPARS_CSV)
  /\ INTERVAL' = IF env.interval.set THEN env.interval.val ELSE 5 * Scale
  /\ rng' = seed_stream(clock % (MaxSeed + 1))
  /\ pc' = "main"
  /\ UNCHANGED <<env, clock, started, now, state, idx, svc, loc, out, ticks, sleeps, aux, meters>>

\* lines 19-24, interval readable: LPARS, INTERVAL and the seeded generator
LoadConfig ==
  /\ pc = "import"
  /\ env.interval.ok
  /\ LPARS' = env_list(env.lpars, DEFAULT_LPARS_CSV)
  /\ INTERVAL' = IF env.interval.set THEN env.interval.val ELSE 5 * Scale
  /\ rng' = seed_stream(IF env.seed.set THEN env.seed.val ELSE 42)
  /\ pc' = "main"
  /\ UNCHANGED <<env, clock, started, now, state, idx, svc, loc, out, ticks, sleeps, aux, meters>>

\* line 22 raising ValueError: float() rejects the text
LoadConfigFails ==
  /\ pc = "import"
  /\ ~env.interval.ok
  /\ LPARS' = env_list(env.lpars, DEFAULT_LPARS_CSV)
  /\ pc' = "error"
  /\ UNCHANGED <<env, INTERVAL, rng, clock, started, now, state, idx, svc, loc, out,
                 ticks, sleeps, aux, meters>>

\* lines 146-147: the memory totals published before the loop
total_gauges(lpars, st) ==
  [i \in 1..Len(lpars) |-> <<"MEM_TOTAL", lpars[i], "", st[lpars[i]].mem_total>>]

\* lines 142-147: the start time, the state store, the static totals
Start ==
  /\ pc = "main"
  /\ started' = clock
  /\ state' = init_state(LPARS, rng)
  /\ rng' = Advance(rng, InitDraws * Len(LPARS))
  /\ out' = out \o total_gauges(LPARS, state')
  /\ \E d \in Lags : clock' = clock + d
  /\ pc' = "loop"
  /\ UNCHANGED <<env, LPARS, INTERVAL, now, idx, svc, loc, ticks, sleeps, aux, meters>>

\* the loop with line 150 hoisted above `while True`: the time is read once
tickBeginStaleNow ==
  /\ pc = "loop"
  /\ ticks < MaxTicks
  /\ now' = started
  /\ ticks' = ticks + 1
  /\ idx' = 1
  /\ pc' = IF LPARS = <<>> THEN "sleep" ELSE "walk"
  /\ UNCHANGED <<env, LPARS, INTERVAL, rng, clock, started, state, svc, loc, out, sleeps, aux, meters>>

\* lines 149-151: one more iteration of the loop begins
TickBegin ==
  /\ pc = "loop"
  /\ ticks < MaxTicks
  /\ now' = clock
  /\ ticks' = ticks + 1
  /\ idx' = 1
  /\ pc' = IF LPARS = <<>> THEN "sleep" ELSE "walk"
  /\ UNCHANGED <<env, LPARS, INTERVAL, rng, clock, started, state, svc, loc, out, sleeps, aux, meters>>

\* the walks of one LPAR with line 162 moved above line 155: mips is computed
\* from the cpu of the previous tick
walkLparStaleMips ==
  /\ pc = "walk"
  /\ LET lpar == LPARS[idx]
         s    == walk(state[lpar], rng)
         mips == mips_consumed(state[lpar], rng)
     IN  /\ state' = [state EXCEPT ![lpar] = s]
         /\ loc' = [loc EXCEPT !.lpar = lpar, !.mips = mips]
         /\ out' = out \o lpar_gauges(lpar, s, mips, now - started)
  /\ rng' = Advance(rng, WalkDraws)
  /\ pc' = "as"
  /\ UNCHANGED <<env, LPARS, INTERVAL, clock, started, now, idx, svc, ticks, sleeps, aux, meters>>

\* the walks of one LPAR with every name bound to the one record just walked
walkLparSharedRecord ==
  /\ pc = "walk"
  /\ LET lpar == LPARS[idx]
         s    == walk(state[lpar], rng)
         mips == mips_consumed(s, rng)
     IN  /\ state' = [l \in DOMAIN state |-> s]
         /\ loc' = [loc EXCEPT !.lpar = lpar, !.mips = mips]
         /\ out' = out \o lpar_gauges(lpar, s, mips, now - started)
  /\ rng' = Advance(rng, WalkDraws)
  /\ pc' = "as"
  /\ UNCHANGED <<env, LPARS, INTERVAL, clock, started, now, idx, svc, ticks, sleeps, aux, meters>>

\* lines 152-175: the walks of one LPAR and its gauges
WalkLpar ==
  /\ pc = "walk"
  /\ LET lpar == LPARS[idx]
         s    == walk(state[lpar], rng)
         mips == mips_consumed(s, rng)
     IN  /\ state' = [state EXCEPT ![lpar] = s]
         /\ loc' = [loc EXCEPT !.lpar = lpar, !.mips = mips]
         /\ out' = out \o lpar_gauges(lpar, s, mips, now - started)
  /\ rng' = Advance(rng, WalkDraws)
  /\ pc' = "as"
  /\ UNCHANGED <<env, LPARS, INTERVAL, clock, started, now, idx, svc, ticks, sleeps, aux, meters>>

\* lines 177-188: the address-space gauges of one LPAR
AddressSpaces ==
  /\ pc = "as"
  /\ out' = out \o as_gauges(LPARS[idx], state[LPARS[idx]], rng)
  /\ rng' = Advance(rng, ASDraws)
  /\ svc' = 1
  /\ pc' = "txn"
  /\ UNCHANGED <<env, LPARS, INTERVAL, clock, started, now, state, idx, loc, ticks, sleeps, aux, meters>>

\* the loop body without its last statement: the loop goes round without sleeping
afterLparNoSleep(i, lpars) == IF i < Len(lpars) THEN "walk" ELSE "loop"

\* lines 151 and 213: after the i-th LPAR comes the next one, and after the
\* last one the sleep that ends the loop body
after_lpar(i, lpars) == IF i < Len(lpars) THEN "walk" ELSE "sleep"

\* a labelled meter after the calls made to it: labels() makes the child on
\* its first use, observe() and inc() each add one
Received(meter, calls, name, lpar, service) ==
  LET n == Cardinality({i \in 1..Len(calls) : calls[i][1] = name})
      k == <<lpar, service>>
  IN  IF n = 0 THEN meter
      ELSE IF k \in DOMAIN meter THEN [meter EXCEPT ![k] = @ + n]
      ELSE meter @@ (k :> n)

\* lines 191-211 for one service: rate, count, and one observation and one
\* increment per transaction
SampleService ==
  /\ pc = "txn"
  /\ LET lpar    == LPARS[idx]
         service == SERVICES[svc]
         s       == state[lpar]
         noise   == uniform(Fx(8, 10), Fx(13, 10), Draw(rng, 1))
         tps     == tps_of(service, s, noise)
         count   == count_of(tps, INTERVAL)
     IN  /\ loc' = [loc EXCEPT !.service = service, !.noise = noise, !.tps = tps,
                               !.count = count]
         /\ out' = out \o txn_calls(lpar, service, s, rng, count)
         /\ TXN_LAT' = Received(TXN_LAT, txn_calls(lpar, service, s, rng, count),
                                "TXN_LAT", lpar, service)
         /\ TXN_TOTAL' = Received(TXN_TOTAL, txn_calls(lpar, service, s, rng, count),
                                  "TXN_TOTAL", lpar, service)
         /\ rng' = Advance(rng, 1 + count)
  /\ IF svc < Len(SERVICES)
       THEN /\ svc' = svc + 1
            /\ UNCHANGED <<idx, pc>>
       ELSE /\ svc' = 0
            /\ idx' = idx + 1
            /\ pc' = after_lpar(idx, LPARS)
  /\ UNCHANGED <<env, LPARS, INTERVAL, clock, started, now, state, ticks, sleeps, aux>>

\* line 213: time.sleep(INTERVAL) returns after at least INTERVAL seconds
Sleep ==
  /\ pc = "sleep"
  /\ INTERVAL >= 0
  /\ \E d \in Lags : clock' = clock + INTERVAL + d
  /\ sleeps' = sleeps + 1
  /\ pc' = "loop"
  /\ UNCHANGED <<env, LPARS, INTERVAL, rng, started, now, state, idx, svc, loc, out, ticks, aux, meters>>

\* line 213 raising ValueError: the sleep length is negative
SleepFails ==
  /\ pc = "sleep"
  /\ INTERVAL < 0
  /\ pc' = "error"
  /\ UNCHANGED <<env, LPARS, INTERVAL, rng, clock, started, now, state, idx, svc, loc, out,
                 ticks, sleeps, aux, meters>>

Next ==
  \/ LoadConfig
  \/ LoadConfigFails
  \/ Start
  \/ TickBegin
  \/ WalkLpar
  \/ AddressSpaces
  \/ SampleService
  \/ Sleep
  \/ SleepFails

Spec == Init /\ [][Next]_vars

\* ------------------------------------------------ two runs of the process
\* the process has ended, or has made all the ticks that are explored
Ended == pc = "error" \/ (pc = "loop" /\ ticks = MaxTicks)

\* The process is started again in the same environment (same RANDOM_SEED,
\* same configuration); the registry of the ended run is kept in `prior`.
Restart ==
  /\ run = 1
  /\ Ended
  /\ run' = 2
  /\ prior' = out
  /\ \E d \in Lags : clock' = clock + d
  /\ pc' = "import"
  /\ LPARS' = <<>>
  /\ INTERVAL' = 0
  /\ rng' = <<0>>
  /\ started' = 0
  /\ now' = 0
  /\ state' = <<>>
  /\ idx' = 0
  /\ svc' = 0
  /\ loc' = NoLocals
  /\ out' = <<>>
  /\ TXN_LAT' = <<>>
  /\ TXN_TOTAL' = <<>>
  /\ ticks' = 0
  /\ sleeps' = 0
  /\ UNCHANGED <<env, call>>

\* environments of the two-run specification
PairEnvs ==
  [lpars    : {Text(<<"A">>), Text(<<"A", ",", "B">>)},
   interval : {e \in IntervalEnvs : e.set /\ (~e.ok \/ e.val # 0)},
   seed     : SeedEnvs]

InitPair == Init /\ env \in PairEnvs

NextPair == Next \/ Restart

SpecPair == InitPair /\ [][NextPair]_vars

\* ------------------------------------------------------- clamp on its own
ClampRange == 3

InitClamp ==
  /\ env = [lpars |-> Unset, interval |-> [set |-> FALSE, ok |-> TRUE, val |-> 0],
            seed |-> [set |-> FALSE, val |-> 0]]
  /\ pc = "call"
  /\ LPARS = <<>>
  /\ INTERVAL = 0
  /\ rng = <<0>>
  /\ clock = 0
  /\ started = 0
  /\ now = 0
  /\ state = <<>>
  /\ idx = 0
  /\ svc = 0
  /\ loc = NoLocals
  /\ out = <<>>
  /\ TXN_LAT = <<>>
  /\ TXN_TOTAL = <<>>
  /\ ticks = 0
  /\ sleeps = 0
  /\ run = 1
  /\ prior = <<>>
  /\ \E v, lo, hi \in (-ClampRange)..ClampRange :
       call = [value |-> v, lo |-> lo, hi |-> hi, outcome |-> "none", result |-> 0]

\* lines 9-10: the call returns max(lo, min(hi, value)); nothing in it raises
ClampCall ==
  /\ pc = "call"
  /\ call' = [call EXCEPT !.outcome = "returned",
                          !.result = clamp(call.value, call.lo, call.hi)]
  /\ pc' = "returned"
  /\ UNCHANGED <<env, LPARS, INTERVAL, rng, clock, started, now, state, idx, svc, loc, out,
                 ticks, sleeps, run, prior, meters>>

SpecClamp == InitClamp /\ [][ClampCall]_vars

\* ------------------------------------------------- reading the registry
\* positions of the calls of one series in a log
CallsOf(log, name, lpar, sub) ==
  {i \in 1..Len(log) : log[i][1] = name /\ log[i][2] = lpar /\ log[i][3] = sub}

\* the value a gauge shows: that of the last set() it received
GaugeValue(log, name, lpar, sub) ==
  LET at == CallsOf(log, name, lpar, sub)
  IN  log[CHOOSE i \in at : \A j \in at : j <= i][4]

Services == {SERVICES[j] : j \in 1..Len(SERVICES)}

\* a tick is being computed and published
InTick == pc \in {"walk", "as", "txn"}

\* ----------------------------------------------------------------- claims
\* C1: in every state reached by init_state and any number of ticks, for every
\* LPAR, cpu and ziip are in [0, 100], iops in [0, 8000], jobq in [0, 200],
\* cfq in [0, 80] and mem_used in [0.30 * mem_total, 0.97 * mem_total].
C1_BoundedScalars ==
  \A l \in DOMAIN state :
    LET s == state[l]
    IN  /\ 0 <= s.cpu  /\ s.cpu  <= 100 * Scale
        /\ 0 <= s.ziip /\ s.ziip <= 100 * Scale
        /\ 0 <= s.iops /\ s.iops <= 8000 * Scale
        /\ 0 <= s.jobq /\ s.jobq <= 200 * Scale
        /\ 0 <= s.cfq  /\ s.cfq  <= 80 * Scale
        /\ 30 * s.mem_total <= 100 * s.mem_used
        /\ 100 * s.mem_used <= 97 * s.mem_total

\* a tick has walked an LPAR whose job queue and coupling-facility queue both
\* came to rest on their lower bound
C1_Witness ==
  /\ pc = "as"
  /\ ticks >= 1
  /\ state[LPARS[idx]].jobq = 0
  /\ state[LPARS[idx]].cfq = 0

\* the value of MAINFRAME_LPARS names no LPAR
EmptyLparList == env.lpars.set /\ stripped_parts(split(env.lpars.val)) = <<>>

\* the value of UPDATE_INTERVAL_SECONDS is a number that is not positive
NonPositiveInterval == env.interval.set /\ env.interval.ok /\ env.interval.val <= 0

\* C2: when the configured LPAR list is empty or the tick interval is not
\* positive, the process never enters the Running state: no tick is executed
\* and no value is published to the sink.
C2_InvalidConfigIsFatal ==
  (EmptyLparList \/ NonPositiveInterval) =>
    (pc \notin {"loop", "walk", "as", "txn", "sleep"} /\ ticks = 0 /\ out = <<>>)

\* the service loc.service of the LPAR loc.lpar has just been sampled, and
\* the LPAR has not been walked since
Sampled == (pc = "txn" /\ svc > 1) \/ (pc \in {"walk", "sleep"} /\ idx > 1)

\* C3: for every tick, LPAR and service, the number of transactions sampled
\* is at least 10, for any cpu value in [0, 100].
C3_CountAtLeastTen ==
  Sampled =>
    /\ loc.count >= 10
    /\ TXN_LAT[<<loc.lpar, loc.service>>] >= 10 * ticks

\* a service was sampled with cpu resting at 0, and 10 transactions were made
C3_Witness ==
  /\ Sampled
  /\ loc.count = 10
  /\ state[loc.lpar].cpu = 0

\* round(x) of Python for a fixed-point x >= 0: the nearest integer, ties to even
RoundHalfEven(x) ==
  LET q == x \div Scale
      r == x % Scale
  IN  IF 2 * r > Scale \/ (2 * r = Scale /\ q % 2 = 1) THEN q + 1 ELSE q

\* base * (0.5 + cpu / 200) * noise for the sampled service, as a fixed-point number
SampledRate ==
  ((IF loc.service = "CICS" THEN 250 ELSE 160)
     * (Scale \div 2 + state[loc.lpar].cpu \div 200) * loc.noise) \div Scale

\* C4 as claimed: the transaction count equals max(10, round(tps * interval / 5.0))
\* with tps = base * (0.5 + cpu/200) * noise, base = 250 for CICS and 160 for
\* every other service: the scaled rate is rounded to the nearest integer.
C4_CountIsRounded ==
  Sampled =>
    /\ loc.tps = SampledRate
    /\ loc.count = Max(10, RoundHalfEven((loc.tps * INTERVAL) \div (5 * Scale)))

\* C4 as amended: the count is max(10, tps * interval / 5.0) truncated to an
\* integer: it is 10 when the scaled rate is below 10, else the largest
\* integer not above the scaled rate.
C4_CountIsTruncated ==
  Sampled =>
    /\ loc.tps = SampledRate
    /\ LET scaled == (loc.tps * INTERVAL) \div (5 * Scale)
       IN  IF scaled < 10 * Scale
             THEN loc.count = 10
             ELSE loc.count * Scale <= scaled /\ scaled < (loc.count + 1) * Scale

\* a service was sampled whose scaled rate lies above 10 and more than a half
\* above the count made
C4_Witness ==
  /\ Sampled
  /\ loc.count > 10
  /\ 2 * ((loc.tps * INTERVAL) \div (5 * Scale) - loc.count * Scale) > Scale

\* C6 as claimed: every tick is preceded by a sleep: no tick's values are
\* published before one interval sleep has completed since entering Running
\* or since the previous tick.
C6_SleepBeforeEveryTick == InTick => sleeps >= ticks

\* C6 as amended: the loop runs a tick and then sleeps: the first tick is
\* published with no sleep completed, and every later tick after exactly one
\* more completed sleep since the previous tick.
C6_SleepBetweenTicks == InTick => sleeps = ticks - 1

\* the second tick is being published, one sleep of a positive interval after the first
C6_Witness == InTick /\ ticks = 2 /\ sleeps = 1 /\ INTERVAL > 0 /\ now - started >= INTERVAL

\* C7: whenever a clamp is requested with lo > hi, the call fails fast
\* (raises) instead of returning a value.
C7_CollapsedBoundRaises ==
  (pc = "returned" /\ call.lo > call.hi) => call.outcome = "raised"

\* C8: for every (LPAR, service) pair the transaction counter equals the
\* number of histogram observations recorded for the pair, after any number
\* of ticks, and the counter never decreases.
C8_CounterMatchesObservations ==
  /\ [](/\ DOMAIN TXN_TOTAL = DOMAIN TXN_LAT
        /\ \A k \in DOMAIN TXN_TOTAL : TXN_TOTAL[k] = TXN_LAT[k])
  /\ [][\A k \in DOMAIN TXN_TOTAL :
          k \in DOMAIN TXN_TOTAL' /\ TXN_TOTAL'[k] >= TXN_TOTAL[k]]_vars

\* two ticks are complete and the counter of every service of an LPAR stands
\* at 20 or more, as does its histogram
C8_Witness ==
  /\ pc = "loop"
  /\ ticks = 2
  /\ \E l \in DOMAIN state : \A s \in Services :
       /\ <<l, s>> \in DOMAIN TXN_TOTAL
       /\ TXN_TOTAL[<<l, s>>] >= 20
       /\ TXN_LAT[<<l, s>>] >= 20

\* C9: mem_total and mips_cap of every LPAR are never changed by a tick, and
\* the memory-total gauge published at start always equals the state's mem_total.
C9_TotalsAreFixed ==
  /\ [](\A l \in DOMAIN state :
          GaugeValue(out, "MEM_TOTAL", l, "") = state[l].mem_total)
  /\ [][\A l \in DOMAIN state :
          /\ state'[l].mem_total = state[l].mem_total
          /\ state'[l].mips_cap = state[l].mips_cap]_vars

\* two ticks are complete and the memory in use of an LPAR has drifted below
\* the range it started in
C9_Witness ==
  /\ pc = "loop"
  /\ ticks = 2
  /\ \E l \in DOMAIN state : 100 * state[l].mem_used < 45 * state[l].mem_total

\* C10: once Running, the driver never stops with an error, whatever interval
\* value was configured.
C10_NeverStops == ticks >= 1 => pc # "error"

\* the log without the uptime gauge
NotUptime(e) == e[1] # "UPTIME"
WithoutUptime(log) == SelectSeq(log, NotUptime)

IsPrefix(a, b) == Len(a) <= Len(b) /\ SubSeq(b, 1, Len(a)) = a

\* C5 as claimed: two runs with the same seed and configuration emit identical
\* sequences of values over N ticks, for every N and every series, uptime included.
C5_RunsEmitSame == run = 2 => IsPrefix(out, prior) /\ (Ended => out = prior)

\* C5 as amended: the sequences are identical for every series except the
\* uptime gauge, which follows the wall clock.
C5_RunsEmitSameButUptime ==
  run = 2 =>
    /\ IsPrefix(WithoutUptime(out), WithoutUptime(prior))
    /\ Ended => WithoutUptime(out) = WithoutUptime(prior)

\* the second run has made all its ticks and differs from the first in an uptime only
C5_Witness ==
  /\ run = 2
  /\ pc = "loop"
  /\ ticks = MaxTicks
  /\ out # prior
  /\ WithoutUptime(out) = WithoutUptime(prior)

\* members of a catalog
Members(seq) == {seq[i] : i \in 1..Len(seq)}

\* C11: immediately after init_state, for every configured LPAR, mem_total is
\* one of {32, 48, 64, 96, 128} GiB, mips_cap is one of {8000, 10000, 12000,
\* 16000}, mem_used is in [0.45 * mem_total, 0.75 * mem_total], cpu in [10, 70],
\* ziip in [5, 60], iops in [500, 3500], jobq in [0, 40] and cfq in [1, 20].
C11_InitialRanges ==
  (pc = "loop" /\ ticks = 0) =>
    /\ DOMAIN state = Members(LPARS)
    /\ \A l \in DOMAIN state :
         LET s == state[l]
         IN  /\ \E tier \in {32, 48, 64, 96, 128} : s.mem_total = tier * Scale
             /\ s.mips_cap \in {8000, 10000, 12000, 16000}
             /\ 45 * s.mem_total <= 100 * s.mem_used
             /\ 100 * s.mem_used <= 75 * s.mem_total
             /\ 10 * Scale <= s.cpu  /\ s.cpu  <= 70 * Scale
             /\ 5 * Scale  <= s.ziip /\ s.ziip <= 60 * Scale
             /\ 500 * Scale <= s.iops /\ s.iops <= 3500 * Scale
             /\ 0 <= s.jobq /\ s.jobq <= 40 * Scale
             /\ 1 * Scale <= s.cfq /\ s.cfq <= 20 * Scale

\* init_state has just run and gave an LPAR the top of the cpu range and the
\* bottom of the coupling-facility queue range
C11_Witness ==
  /\ pc = "loop"
  /\ ticks = 0
  /\ \E l \in DOMAIN state : state[l].cpu = 70 * Scale /\ state[l].cfq = 1 * Scale

\* ------------------------------------------------ the loop at a later tick
\* A tick that begins after the walks have run for a long time: the record of
\* the LPAR can hold any value the clamps admit, the bounds included, and the
\* generator can be anywhere in its sequence. The registry is followed from
\* this tick on.

\* the draws of one LPAR's walks and address spaces
LateLen == WalkDraws + ASDraws

\* the draws the outcome hinges on: the cpu noise (line 155), the mips noise
\* (line 162), the first weight (line 179), the first share noise (line 182)
HingeDraws == {1, WalkDraws - 1, WalkDraws + 1, WalkDraws + NumAS + 1}

\* the generator: the hinge draws in H at one level, the others at another
LateStreams ==
  {[i \in 1..LateLen |-> IF i \in H THEN a ELSE b] :
     H \in SUBSET HingeDraws, a \in Levels, b \in Levels}

\* the record of the LPAR: cpu and jobq at their lower bound, halfway, and at
\* their upper bound (lines 155 and 158), the other fields as init_state draws them
LateRecords(g) ==
  {[init_lpar(g) EXCEPT !.cpu = c, !.jobq = q] :
     c \in {0, 50 * Scale, 100 * Scale}, q \in {0, 100 * Scale, 200 * Scale}}

InitLate ==
  /\ env = [lpars |-> Text(<<"A">>),
            interval |-> [set |-> TRUE, ok |-> TRUE, val |-> Fx(4, 10)],
            seed |-> [set |-> FALSE, val |-> 0]]
  /\ pc = "walk"
  /\ LPARS = env_list(env.lpars, DEFAULT_LPARS_CSV)
  /\ INTERVAL = Fx(4, 10)
  /\ rng \in LateStreams
  /\ started = 0
  /\ sleeps = MaxTicks
  /\ ticks = MaxTicks + 1
  /\ clock = sleeps * INTERVAL
  /\ now = clock
  /\ \E r \in LateRecords(rng) : state = (LPARS[1] :> r)
  /\ idx = 1
  /\ svc = 0
  /\ loc = NoLocals
  /\ out = total_gauges(LPARS, state)
  /\ TXN_LAT = <<>>
  /\ TXN_TOTAL = <<>>
  /\ run = 1
  /\ prior = <<>>
  /\ call = NoCall

NextLate == WalkLpar \/ AddressSpaces \/ SampleService

SpecLate == InitLate /\ [][NextLate]_vars

\* C12: every per-address-space CPU value published is in [0, 100], in every
\* tick and for every LPAR cpu in [0, 100], cpu = 100 included.
C12_AddressSpaceCpuInRange ==
  \A i \in 1..Len(out) :
    out[i][1] = "AS_CPU" => (0 <= out[i][4] /\ out[i][4] <= 100 * Scale)

\* the LPAR is at cpu = 100 and an address space was published at 100, where
\* its share times its noise went above
C12_Witness ==
  \E i \in 1..Len(out) :
    /\ out[i][1] = "AS_CPU"
    /\ out[i][4] = 100 * Scale
    /\ state[out[i][2]].cpu = 100 * Scale
    /\ \E a \in 1..NumAS :
         /\ ADDRESS_SPACES[a] = out[i][3]
         /\ pc = "txn" /\ svc = 1

\* lines 198-205: the base latency sampled for the n-th transaction of a
\* service, with the generator at g when the service begins
base_sample(service, g, n) ==
  lognormvariate(lat_mu(service), lat_sigma(service), Draw(g, 1 + n))

\* line 158: the job queue depth is at its upper bound when no walk step
\* raises it
AtJobqBound(s) == \A k \in Levels : walk(s, <<k>>).jobq <= s.jobq

\* the n-th latency observed in the step that samples a service
ObservedNext(n) == out'[Len(out) + 2 * n - 1][4]

JustSet(name) ==
  LET n == Len(out)
  IN  out[CHOOSE i \in (n - 7)..n : out[i][1] = name][4]

\* the uptimes published for LPARS[idx] before the one just set
EarlierUptimes ==
  {out[i][4] : i \in {j \in 1..(Len(out) - 1) :
                        out[j][1] = "UPTIME" /\ out[j][2] = LPARS[idx]}}

C15_UptimeTracksTicks ==
  (pc = "as" /\ INTERVAL > 0 /\ clock - started = sleeps * INTERVAL) =>
    /\ JustSet("UPTIME") - ticks * INTERVAL <= INTERVAL
    /\ ticks * INTERVAL - JustSet("UPTIME") <= INTERVAL

\* the last tick followed publishes its uptime, no time having passed but in
\* the sleeps: it is one interval short of N * I
C15_Witness ==
  /\ pc = "as"
  /\ ticks = MaxTicks
  /\ INTERVAL > 0
  /\ clock - started = sleeps * INTERVAL
  /\ JustSet("UPTIME") = (ticks - 1) * INTERVAL

\* --------------------------------------------- the sampler on its own
\* Lines 190-211 entered with a record that the walks did not bound: cpu and
\* jobq below their range, inside it, and above it.
InitSampler ==
  /\ env = [lpars |-> Text(<<"A">>),
            interval |-> [set |-> TRUE, ok |-> TRUE, val |-> Fx(4, 10)],
            seed |-> [set |-> FALSE, val |-> 0]]
  /\ pc = "txn"
  /\ LPARS = env_list(env.lpars, DEFAULT_LPARS_CSV)
  /\ INTERVAL = Fx(4, 10)
  /\ \E n \in 0..MaxSeed : rng = seed_stream(n)
  /\ started = 0
  /\ sleeps = 0
  /\ ticks = 1
  /\ clock = 0
  /\ now = 0
  /\ \E c \in {-50 * Scale, 50 * Scale, 150 * Scale},
        q \in {-10 * Scale, 20 * Scale, 400 * Scale} :
       state = (LPARS[1] :> [init_lpar(rng) EXCEPT !.cpu = c, !.jobq = q])
  /\ idx = 1
  /\ svc = 1
  /\ loc = [NoLocals EXCEPT !.lpar = LPARS[1]]
  /\ out = <<>>
  /\ TXN_LAT = <<>>
  /\ TXN_TOTAL = <<>>
  /\ run = 1
  /\ prior = <<>>
  /\ call = NoCall

NextSampler == SampleService

SpecSampler == InitSampler /\ [][NextSampler]_vars

\* the walk invariants of lines 155 and 158: cpu in [0, 100], jobq in [0, 200]
WalkInvariants(s) ==
  /\ 0 <= s.cpu  /\ s.cpu  <= 100 * Scale
  /\ 0 <= s.jobq /\ s.jobq <= 200 * Scale

C17_MipsFromPublishedCpu ==
  pc = "as" =>
    LET cap  == state[LPARS[idx]].mips_cap
        cpu  == JustSet("CPU")
        mips == JustSet("MIPS")
        full == (cap * cpu) \div 100
    IN  /\ cpu = state[LPARS[idx]].cpu
        /\ 0 <= mips
        /\ 85 * full - 100 <= 100 * mips
        /\ 100 * mips <= 115 * full
        /\ 100 * mips <= 115 * cap * Scale

\* a tick has published a MIPS value above the capacity, from a cpu that the
\* walk of this tick moved below 100
C17_Witness ==
  /\ pc = "as"
  /\ JustSet("MIPS") > state[LPARS[idx]].mips_cap * Scale
  /\ JustSet("CPU") < 100 * Scale

\* ------------------------------------------- two runs in opposite orders
Reverse(seq) == [i \in 1..Len(seq) |-> seq[Len(seq) + 1 - i]]

\* The process is started again with the same RANDOM_SEED and interval and
\* with MAINFRAME_LPARS naming the same LPARs in the opposite order; the
\* registry of the ended run is kept in `prior`.
RestartReordered ==
  /\ run = 1
  /\ Ended
  /\ run' = 2
  /\ prior' = out
  /\ env' = [env EXCEPT !.lpars = Text(Reverse(env.lpars.val))]
  /\ \E d \in Lags : clock' = clock + d
  /\ pc' = "import"
  /\ LPARS' = <<>>
  /\ INTERVAL' = 0
  /\ rng' = <<0>>
  /\ started' = 0
  /\ now' = 0
  /\ state' = <<>>
  /\ idx' = 0
  /\ svc' = 0
  /\ loc' = NoLocals
  /\ out' = <<>>
  /\ TXN_LAT' = <<>>
  /\ TXN_TOTAL' = <<>>
  /\ ticks' = 0
  /\ sleeps' = 0
  /\ UNCHANGED call

\* environments of the two runs: two LPARs, "A,B" in the first run
OrderEnvs ==
  [lpars    : {Text(<<"A", ",", "B">>)},
   interval : {e \in IntervalEnvs : e.set /\ (~e.ok \/ e.val # 0)},
   seed     : SeedEnvs]

InitOrder == Init /\ env \in OrderEnvs

NextOrder == Next \/ RestartReordered

SpecOrder == InitOrder /\ [][NextOrder]_vars

\* the calls of a log that carry values of one LPAR, the uptime left out
ValuesOf(log, l) == SelectSeq(log, LAMBDA e : e[2] = l /\ e[1] # "UPTIME")

\* the list of the first run, seen from the second
FirstOrder == Reverse(LPARS)

\* a log with each LPAR named as the LPAR that has its place in the second run
Renamed(log) ==
  [i \in 1..Len(log) |->
     LET k == CHOOSE k \in 1..Len(FirstOrder) : FirstOrder[k] = log[i][2]
     IN  [log[i] EXCEPT ![2] = LPARS[k]]]

\* the second run has made all its ticks
SecondRunDone == run = 2 /\ pc = "loop" /\ ticks = MaxTicks

\* C18 as stated: the computation of one LPAR depends on no other LPAR: under
\* a fixed seed the values emitted for an LPAR are the same in whatever order
\* the LPARs are processed.
C18_SameValuesInAnyOrder ==
  SecondRunDone => \A l \in DOMAIN state : ValuesOf(out, l) = ValuesOf(prior, l)

\* C18 amended: all LPARs draw from the one seeded generator in the order they
\* are processed, so under a fixed seed the values follow the place in the
\* list and not the LPAR: the second run emits, for the LPAR in each place,
\* what the first run emitted for the LPAR it had in that place.
C18_ValuesFollowPlace ==
  SecondRunDone => WithoutUptime(out) = Renamed(WithoutUptime(prior))

\* both runs are complete and an LPAR was given other values in the second
C18_Witness ==
  /\ SecondRunDone
  /\ Len(LPARS) = 2
  /\ \E l \in DOMAIN state : ValuesOf(out, l) # ValuesOf(prior, l)
  /\ WithoutUptime(out) = Renamed(WithoutUptime(prior))

\* C19: in every tick each LPAR's state record is advanced exactly once and
\* each of its series is published exactly once, for every LPAR list env_list
\* can return, a list naming the same LPAR more than once included: when a
\* tick is complete, every LPAR's cpu gauge has been set once per tick.
C19_OncePerLparPerTick ==
  pc = "sleep" =>
    \A l \in DOMAIN state : Cardinality(CallsOf(out, "CPU", l, "")) = ticks

\* init_state has returned and the loop is running
AfterInitState == pc \in {"loop", "walk", "as", "txn", "sleep"}

\* C20: processing one LPAR in a tick changes only that LPAR's state record,
\* the records of the other LPARs are unchanged, and the set of keys of the
\* state store never changes after init_state.
C20_OnlyOwnRecord ==
  [][AfterInitState =>
       (/\ DOMAIN state' = DOMAIN state
        /\ InTick => (\A l \in DOMAIN state : l # LPARS[idx] => state'[l] = state[l]))]_vars

\* the second of two LPARs has just been walked and published, and the record
\* of the first is still the one the first published
C20_Witness ==
  /\ pc = "as"
  /\ idx = 2
  /\ LPARS[1] # LPARS[2]
  /\ DOMAIN state = {LPARS[1], LPARS[2]}
  /\ JustSet("CPU") = state[LPARS[2]].cpu
  /\ state[LPARS[1]].cpu # state[LPARS[2]].cpu
  /\ GaugeValue(out, "CPU", LPARS[1], "") = state[LPARS[1]].cpu

====
